---- MODULE Spec2Model ----
(***************************************************************************)
(* Model of app.py, the Streamlit expense tracker.                         *)
(*                                                                         *)
(* The program is one script that Streamlit runs from top to bottom after  *)
(* every widget interaction.  A state of the model is the state at the end *)
(* of a script run: st.session_state (data, edit_index), the widget state  *)
(* of the page that was rendered (menu, uploaded file, search text) and    *)
(* what the page showed (view).  An action is one widget interaction       *)
(* together with the whole script run (and the rerun it asks for) that it  *)
(* triggers.                                                               *)
(*                                                                         *)
(* A DataFrame is a sequence of rows; the label of the i-th row (the       *)
(* RangeIndex that ignore_index / reset_index keep) is i - 1.  A cell is a *)
(* record [t, v]: t = "val" for a usable value, "text" for a string that   *)
(* is no number / no date, "nan" for a missing value.  Amounts are counted *)
(* in hundredths; a date is the number yyyymmdd.                           *)
(***************************************************************************)
EXTENDS Integers, Sequences, FiniteSets, TLC

VARIABLES
    data,        \* st.session_state.data
    edit_index,  \* st.session_state.edit_index
    menu,        \* the page the sidebar radio selects
    file,        \* the file the uploader of Manage Data holds
    search,      \* the text of the search box of Manage Data
    view,        \* what the last run showed
    last,        \* history: the last interaction and the stores it saw
    selected     \* history: where the record picked for edit is now

vars == <<data, edit_index, menu, file, search, view, last, selected>>

---------------------------------------------------------------------------
(* Bounds of the model *)

\* longest store the interactive specification lets the session build
MaxLen == 3
\* longest store the pipeline specification starts from
MaxRows == 3

---------------------------------------------------------------------------
(* Cells and rows *)

Val(v) == [t |-> "val", v |-> v]
\* a string cell in the date or amount column that does not parse
TextNum == [t |-> "text", v |-> 0]
NanNum == [t |-> "nan", v |-> 0]
NanStr == [t |-> "nan", v |-> ""]

IsNa(c) == c.t = "nan"

\* an amount of r rupees and p paise, in hundredths
Rupees(r, p) == r * 100 + p

\* InputAgent.collect_manual
collect_manual(date, amount, category, desc) ==
    [date |-> date, amount |-> amount, category |-> category, description |-> desc]

\* pd.concat([a, b], ignore_index=True)
concat(a, b) == a \o b

\* DataFrame.empty
empty(df) == Len(df) = 0

\* the labels of a frame with a RangeIndex
Labels(df) == 0 .. (Len(df) - 1)

\* df.loc[label] of an existing label
Row(df, label) == df[label + 1]

---------------------------------------------------------------------------
(* CleaningAgent, AnalysisAgent, DecisionAgent, RecommendationAgent *)

\* df.dropna(): a row with a missing value in any column goes
dropna(df) ==
    SelectSeq(df, LAMBDA r : ~IsNa(r.date) /\ ~IsNa(r.amount)
                             /\ ~IsNa(r.category) /\ ~IsNa(r.description))

\* df["amount"].astype(float) raises ValueError on a string that is no number
AstypeFloatRaises(df) == \E i \in 1 .. Len(df) : df[i].amount.t = "text"

\* pd.to_datetime(df["date"]) raises on a string that is no date
ToDatetimeRaises(df) == \E i \in 1 .. Len(df) : df[i].date.t = "text"

\* strftime("%Y-%m"): year and month of yyyymmdd, as the number yyyymm
Month(date) == date \div 100

\* CleaningAgent.clean: the cleaned frame, or the exception that ends the run
clean(df) ==
    LET kept == dropna(df)
    IN  IF AstypeFloatRaises(kept) \/ ToDatetimeRaises(kept)
        THEN [error |-> "ValueError", rows |-> <<>>]
        ELSE [error |-> "",
              rows |-> [i \in 1 .. Len(kept) |->
                         [date |-> kept[i].date.v,
                          amount |-> kept[i].amount.v,
                          category |-> kept[i].category.v,
                          description |-> kept[i].description.v,
                          month |-> Month(kept[i].date.v)]]]

RECURSIVE SumAmount(_)
\* df["amount"].sum()
SumAmount(df) ==
    IF df = <<>> THEN 0 ELSE Head(df).amount + SumAmount(Tail(df))

\* the order Python sorts the category strings of the model in
CategoryOrder == <<"", "Food", "Gym", "Other", "Travel">>

\* the rank of each category string in that order
CategoryRank ==
    [c \in {CategoryOrder[i] : i \in 1 .. Len(CategoryOrder)} |->
       CHOOSE i \in 1 .. Len(CategoryOrder) : CategoryOrder[i] = c]

RECURSIVE SortedByRank(_, _)
\* groupby sorts the group keys ascending
SortedByRank(keys, rank) ==
    IF keys = {} THEN <<>>
    ELSE LET k == CHOOSE x \in keys : \A y \in keys : rank[x] <= rank[y]
         IN  <<k>> \o SortedByRank(keys \ {k}, rank)

\* the rows of one group
GroupRows(df, col, key) == SelectSeq(df, LAMBDA r : r[col] = key)

\* groupby(col)["amount"].first() in place of sum()
GroupFirst(df, col, rank) ==
    LET keys == SortedByRank({df[i][col] : i \in 1 .. Len(df)}, rank)
    IN  [j \in 1 .. Len(keys) |->
           [key |-> keys[j], amount |-> Head(GroupRows(df, col, keys[j])).amount]]

\* df.groupby(col)["amount"].sum().reset_index()
GroupSum(df, col, rank) ==
    LET keys == SortedByRank({df[i][col] : i \in 1 .. Len(df)}, rank)
    IN  [j \in 1 .. Len(keys) |->
           [key |-> keys[j], amount |-> SumAmount(GroupRows(df, col, keys[j]))]]

\* months sort as numbers
MonthRank(df) == [m \in {df[i].month : i \in 1 .. Len(df)} |-> m]

\* AnalysisAgent.analyze
analyze(df) ==
    [total |-> SumAmount(df),
     by_cat |-> GroupSum(df, "category", CategoryRank),
     by_month |-> GroupSum(df, "month", MonthRank(df))]

\* default of detect_overspend's limit, in rupees
DefaultLimit == 3000

\* detect_overspend with the limit taken inclusively
detect_overspend_inclusive(df, limit) ==
    LET groups == GroupSum(df, "category", CategoryRank)
        over == SelectSeq(groups, LAMBDA g : g.amount >= Rupees(limit, 0))
    IN  [j \in 1 .. Len(over) |-> [category |-> over[j].key, total |-> over[j].amount]]

\* DecisionAgent.detect_overspend: one alert per group whose sum is over the limit
detect_overspend(df, limit) ==
    LET groups == GroupSum(df, "category", CategoryRank)
        over == SelectSeq(groups, LAMBDA g : g.amount > Rupees(limit, 0))
    IN  [j \in 1 .. Len(over) |-> [category |-> over[j].key, total |-> over[j].amount]]

HighCut == 15000
ModerateCut == 8000
HighAdvice == "High spending pattern. Reduce non-essential expenses."
ModerateAdvice == "Moderate spending. Optimize discretionary costs."
FavorableAdvice == "Excellent financial discipline. Good savings pattern."

\* recommend with the cut points taken inclusively
recommend_inclusive(total) ==
    IF total >= Rupees(HighCut, 0) THEN HighAdvice
    ELSE IF total >= Rupees(ModerateCut, 0) THEN ModerateAdvice
    ELSE FavorableAdvice

\* RecommendationAgent.recommend
recommend(total) ==
    IF total > Rupees(HighCut, 0) THEN HighAdvice
    ELSE IF total > Rupees(ModerateCut, 0) THEN ModerateAdvice
    ELSE FavorableAdvice

---------------------------------------------------------------------------
(* Session state, widgets and what a page shows *)

\* st.session_state.edit_index = None
None == -1

\* the file uploader: empty, or holding a CSV whose rows read_csv returns
NoFile == [present |-> FALSE, rows |-> <<>>]
Uploaded(rows) == [present |-> TRUE, rows |-> rows]

\* what a page shows at the end of a run; error is the exception that ended
\* it, listed the rows of Manage Data that got their buttons, form whether its
\* edit form was rendered, custom whether Add Expense rendered the Custom
\* Category input
BlankView ==
    [page |-> "", error |-> "", nodata |-> FALSE, total |-> 0, entries |-> 0,
     by_cat |-> <<>>, by_month |-> <<>>, alerts |-> <<>>, rec |-> "", top |-> "",
     listed |-> {}, form |-> FALSE, custom |-> FALSE]

\* the history of the last run: the interaction, the store when the run began
\* (pre), when the interaction's handler began (at) and when the handler had
\* changed it, before any rerun (after), the position and the rows it was given
History(op, pre, at, after, pos, rows) ==
    [op |-> op, pre |-> pre, at |-> at, after |-> after, pos |-> pos, rows |-> rows]

\* the record picked for edit is no longer in the store
Gone == None - 1

---------------------------------------------------------------------------
(* Dashboard and Reports *)

\* the Dashboard page
DashboardView(df) ==
    IF empty(df) THEN [BlankView EXCEPT !.page = "Dashboard", !.nodata = TRUE]
    ELSE LET c == clean(df)
             a == analyze(c.rows)
         IN  IF c.error # ""
             THEN [BlankView EXCEPT !.page = "Dashboard", !.error = c.error]
             ELSE [BlankView EXCEPT !.page = "Dashboard",
                                    !.total = a.total,
                                    !.entries = Len(c.rows),
                                    !.by_cat = a.by_cat,
                                    !.by_month = a.by_month,
                                    !.alerts = detect_overspend(c.rows, DefaultLimit),
                                    !.rec = recommend(a.total)]

\* by_cat.sort_values('amount', ascending=False).iloc[0]['category']: a category
\* with the largest sum (which one of several is left to the sort)
TopCategories(by_cat) ==
    {by_cat[i].key : i \in {j \in 1 .. Len(by_cat) :
                              \A k \in 1 .. Len(by_cat) : by_cat[k].amount <= by_cat[j].amount}}

\* the Reports page, given the top category the sort picked
ReportsView(df, top) ==
    IF empty(df) THEN [BlankView EXCEPT !.page = "Reports", !.nodata = TRUE]
    ELSE LET c == clean(df)
             a == analyze(c.rows)
         IN  IF c.error # ""
             THEN [BlankView EXCEPT !.page = "Reports", !.error = c.error]
             ELSE IF a.by_cat = <<>>
             THEN [BlankView EXCEPT !.page = "Reports", !.error = "IndexError"]
             ELSE [BlankView EXCEPT !.page = "Reports",
                                    !.total = a.total,
                                    !.entries = Len(c.rows),
                                    !.by_cat = a.by_cat,
                                    !.by_month = a.by_month,
                                    !.top = top]

\* the tops ReportsView may be given
ReportsTops(df) ==
    LET c == clean(df)
    IN  IF empty(df) \/ c.error # "" \/ analyze(c.rows).by_cat = <<>>
        THEN {""}
        ELSE TopCategories(analyze(c.rows).by_cat)

---------------------------------------------------------------------------
(* Manage Data *)

\* the upload block: it runs in every run of the page while a file is held
AfterUpload(df, f) == IF f.present THEN concat(df, f.rows) ELSE df

\* row.astype(str).str.contains(search, case=False).any(): the search texts of
\* the model are whole category or description texts and part of no other cell
Matches(row, s) ==
    \/ (row.category.t = "val" /\ row.category.v = s)
    \/ (row.description.t = "val" /\ row.description.v = s)

\* the labels of the rows the listing iterates over
Visible(df, s) == {i \in Labels(df) : s = "" \/ Matches(Row(df, i), s)}

\* pd.to_datetime(row["date"]).date() raises on a string that is no date (a
\* missing date becomes NaT, whose date() is NaT)
DateRaises(row) == row.date.t = "text"

\* the labels whose row and buttons the listing renders: those before the
\* first row whose date raises
Listed(df, s) ==
    {i \in Visible(df, s) : \A j \in Visible(df, s) : j <= i => ~DateRaises(Row(df, j))}

\* the listing ends the run with an exception
ListingRaises(df, s) == \E i \in Visible(df, s) : DateRaises(Row(df, i))

\* DataFrame.drop(label).reset_index(drop=True); KeyError for a label not in the index
drop(df, label) ==
    IF label \in Labels(df)
    THEN [error |-> "", df |-> SubSeq(df, 1, label) \o SubSeq(df, label + 2, Len(df))]
    ELSE [error |-> "KeyError", df |-> df]

\* row = data.loc[edit_index]: KeyError for a label not in the index
LocRaises(df, label) == label \notin Labels(df)

\* the widgets of the edit form raise on a default they cannot take: a date
\* that does not parse or is NaT, an amount that is no number or is below
\* min_value
FormRaises(row) == row.date.t # "val" \/ row.amount.t # "val" \/ row.amount.v < 0

\* data.loc[label] = [...]: replaces the row of an existing label, and
\* enlarges the frame by a row for a label that is not in the index
LocSet(df, label, row) ==
    IF label \in Labels(df) THEN [df EXCEPT ![label + 1] = row] ELSE Append(df, row)

\* the edit-mode block without the lookup of the row: a position that is not
\* in the store gets a form of defaults
EditModeErrorUnchecked(df, ei) ==
    IF ei = None \/ LocRaises(df, ei) THEN ""
    ELSE IF FormRaises(Row(df, ei)) THEN "ValueError"
    ELSE ""

\* the exception, if any, that ends the edit-mode block before its buttons
EditModeError(df, ei) ==
    IF ei = None THEN ""
    ELSE IF LocRaises(df, ei) THEN "KeyError"
    ELSE IF FormRaises(Row(df, ei)) THEN "ValueError"
    ELSE ""

\* a run of the page in which no button is pressed: the upload block, the
\* listing, the edit-mode block
Render(df, ei, f, s) ==
    LET d1 == AfterUpload(df, f)
        err == IF ListingRaises(d1, s) THEN "ValueError" ELSE EditModeError(d1, ei)
    IN  [data |-> d1,
         edit_index |-> ei,
         view |-> [BlankView EXCEPT !.page = "Manage Data",
                                    !.error = err,
                                    !.entries = Len(d1),
                                    !.listed = Listed(d1, s),
                                    !.form = (ei # None /\ err = "")]]

---------------------------------------------------------------------------
(* Add Expense *)

\* if submit and amount>=0
AcceptedFromZero(amount) == amount >= 0

\* if submit and amount>0
Accepted(amount) == amount > 0

\* final_cat = custom if category=="Other" and custom!="" else category
final_cat(category, custom) ==
    IF category = "Other" /\ custom # "" THEN custom ELSE category

\* the store after the form is submitted
AfterSubmit(df, date, amount, category, custom, desc) ==
    IF Accepted(amount)
    THEN concat(df, <<collect_manual(Val(date), Val(amount),
                                     Val(final_cat(category, custom)), Val(desc))>>)
    ELSE df

---------------------------------------------------------------------------
(* Inputs of the interactive specification *)

\* st.date_input, st.number_input, st.selectbox and st.text_input of the add form
Dates == {20240105}
Amounts == {0, Rupees(50, 0)}
Picked == {"Food", "Other"}
Customs == {"", "Food"}
Descriptions == {""}
\* st.number_input and st.text_input("Category") of the edit form
EditedAmounts == {Rupees(50, 0)}
EditedCategories == {"Food", ""}
\* st.text_input("Search")
Searches == {"", "Food"}

\* the CSV line 2024-02-01,200,Travel, (no description)
TravelRow == collect_manual(Val(20240201), Val(Rupees(200, 0)), Val("Travel"), NanStr)
\* the CSV line soon,200,,taxi (a date that does not parse, no category)
GarbledRow == collect_manual(TextNum, Val(Rupees(200, 0)), NanStr, Val("taxi"))

\* st.file_uploader
CsvFiles == {<<TravelRow>>, <<GarbledRow>>}

---------------------------------------------------------------------------
(* The interactions *)

\* the script's first run
Init ==
    /\ data = <<>>
    /\ edit_index = None
    /\ menu = "Dashboard"
    /\ file = NoFile
    /\ search = ""
    /\ view = DashboardView(<<>>)
    /\ last = History("start", <<>>, <<>>, <<>>, None, <<>>)
    /\ selected = None

\* the sidebar radio: the widgets of the page left are dropped
Navigate(m) ==
    /\ m # menu
    /\ menu' = m
    /\ file' = NoFile
    /\ search' = ""
    /\ \/ m = "Dashboard" /\ view' = DashboardView(data)
       \/ m = "Reports" /\ \E top \in ReportsTops(data) : view' = ReportsView(data, top)
       \/ m = "Add Expense" /\ view' = [BlankView EXCEPT !.page = "Add Expense"]
       \/ m = "Manage Data" /\ view' = Render(data, edit_index, NoFile, "").view
    /\ last' = History("navigate", data, data, data, None, <<>>)
    /\ UNCHANGED <<data, edit_index, selected>>

\* Save Expense; the Custom Category input holds a text only if the run
\* before rendered it, and is read only if the category is "Other"
Submit(date, amount, category, custom, desc) ==
    /\ menu = "Add Expense"
    /\ custom = "" \/ (category = "Other" /\ view.custom)
    /\ Len(AfterSubmit(data, date, amount, category, custom, desc)) <= MaxLen
    /\ data' = AfterSubmit(data, date, amount, category, custom, desc)
    /\ last' = History("submit", data, data, data', None,
                       <<collect_manual(Val(date), Val(amount), Val(category), Val(desc))>>)
    /\ view' = [BlankView EXCEPT !.page = "Add Expense", !.custom = (category = "Other")]
    /\ UNCHANGED <<edit_index, menu, file, search, selected>>

\* a run of Manage Data with the widgets f and s in which no button acts
Show(op, f, s, ei, rows) ==
    \E r \in {Render(data, ei, f, s)} :
        /\ menu = "Manage Data"
        /\ Len(r.data) <= MaxLen
        /\ data' = r.data
        /\ edit_index' = ei
        /\ file' = f
        /\ search' = s
        /\ view' = r.view
        /\ last' = History(op, data, r.data, r.data, ei, rows)
        /\ UNCHANGED menu

\* a file is put into the uploader
Upload(rows) ==
    /\ Show("upload", Uploaded(rows), search, edit_index, rows)
    /\ UNCHANGED selected

\* the file is taken out of the uploader
RemoveFile ==
    /\ file.present
    /\ Show("remove file", NoFile, search, edit_index, <<>>)
    /\ UNCHANGED selected

\* the search box is changed
Search(s) ==
    /\ s # search
    /\ Show("search", file, s, edit_index, <<>>)
    /\ UNCHANGED selected

\* the page is rendered again
Rerun ==
    /\ Show("rerun", file, search, edit_index, <<>>)
    /\ UNCHANGED selected

\* the edit button of the row with label i
Edit(i) ==
    /\ i \in view.listed
    /\ Show("edit", file, search, i, <<>>)
    /\ selected' = i

\* where the record picked for edit is after the row with label i is dropped
Shifted(sel, i) ==
    IF sel \in {None, Gone} \/ i > sel THEN sel
    ELSE IF i = sel THEN Gone
    ELSE sel - 1

\* the delete button of the row with label i, and the rerun it asks for
Delete(i) ==
    /\ menu = "Manage Data"
    /\ i \in view.listed
    /\ \E d1 \in {AfterUpload(data, file)} :
       \E d2 \in {drop(d1, i)} :
       \E r \in {Render(d2.df, edit_index, file, search)} :
          /\ Len(r.data) <= MaxLen
          /\ IF d2.error # ""
             THEN /\ data' = d1
                  /\ view' = [BlankView EXCEPT !.page = "Manage Data", !.error = d2.error]
             ELSE /\ data' = r.data
                  /\ view' = r.view
          /\ last' = History("delete", data, d1, d2.df, i, <<>>)
    /\ selected' = Shifted(selected, i)
    /\ UNCHANGED <<edit_index, menu, file, search>>

\* a button of the edit form acts in a run r0 that reaches the form (the run
\* before rendered it, and the upload block only appends): the store becomes
\* d2, edit mode ends, and the script is rerun
FormActs(op, r0, d2, rows) ==
    /\ r0.view.error = ""
    /\ \E r \in {Render(d2, None, file, search)} :
          /\ Len(r.data) <= MaxLen
          /\ data' = r.data
          /\ view' = r.view
    /\ edit_index' = None
    /\ last' = History(op, data, r0.data, d2, edit_index, rows)
    /\ selected' = None

\* the Update button of the edit form
Update(date, amount, category, desc) ==
    /\ menu = "Manage Data"
    /\ view.form
    /\ \E r0 \in {Render(data, edit_index, file, search)} :
       \E row \in {collect_manual(Val(date), Val(amount), Val(category), Val(desc))} :
          FormActs("update", r0, LocSet(r0.data, edit_index, row), <<row>>)
    /\ UNCHANGED <<menu, file, search>>

\* the Cancel button of the edit form
Cancel ==
    /\ menu = "Manage Data"
    /\ view.form
    /\ \E r0 \in {Render(data, edit_index, file, search)} :
          FormActs("cancel", r0, r0.data, <<>>)
    /\ UNCHANGED <<menu, file, search>>

Next ==
    \/ \E m \in {"Dashboard", "Add Expense", "Manage Data", "Reports"} : Navigate(m)
    \/ \E d \in Dates, a \in Amounts, c \in Picked, cu \in Customs, de \in Descriptions :
         Submit(d, a, c, cu, de)
    \/ \E rows \in CsvFiles : Upload(rows)
    \/ RemoveFile
    \/ \E s \in Searches : Search(s)
    \/ Rerun
    \/ \E i \in 0 .. MaxLen : Edit(i)
    \/ \E i \in 0 .. MaxLen : Delete(i)
    \/ \E d \in Dates, a \in EditedAmounts, c \in EditedCategories, de \in Descriptions :
         Update(d, a, c, de)
    \/ Cancel

Spec == Init /\ [][Next]_vars

---------------------------------------------------------------------------
(* The pipeline specification: the Dashboard and Reports pages over stores *)
(* of every shape an import and the forms can leave behind                 *)

JanFood == collect_manual(Val(20240105), Val(Rupees(3000, 0)), Val("Food"), Val(""))
FebFood == collect_manual(Val(20240201), Val(Rupees(0, 1)), Val("Food"), Val(""))
JanTravel == collect_manual(Val(20240120), Val(Rupees(5000, 0)), Val("Travel"), Val(""))
FebTravel == collect_manual(Val(20240201), Val(Rupees(10000, 0)), Val("Travel"), Val(""))
JanGym == collect_manual(Val(20240120), Val(Rupees(3000, 0)), Val("Gym"), Val("pass"))
\* CSV lines with a date or an amount that does not parse, and a negative amount
BadDateRow == collect_manual(TextNum, Val(Rupees(200, 0)), Val("Food"), Val("taxi"))
BadAmountRow == collect_manual(Val(20240105), TextNum, Val("Food"), Val("taxi"))
NegativeRow == collect_manual(Val(20240105), Val(0 - Rupees(50, 0)), Val("Food"), Val("taxi"))

PipelineRows ==
    {JanFood, FebFood, JanTravel, FebTravel, JanGym, BadDateRow, BadAmountRow, NegativeRow, TravelRow}

\* the stores of at most n rows
Stores(n) == UNION {[1 .. k -> PipelineRows] : k \in 0 .. n}

\* the session is on Add Expense with some store
InitPipeline ==
    /\ data \in Stores(MaxRows)
    /\ edit_index = None
    /\ menu = "Add Expense"
    /\ file = NoFile
    /\ search = ""
    /\ view = [BlankView EXCEPT !.page = "Add Expense"]
    /\ last = History("start", <<>>, <<>>, <<>>, None, <<>>)
    /\ selected = None

NextPipeline == \E m \in {"Dashboard", "Reports"} : Navigate(m)

SpecPipeline == InitPipeline /\ [][NextPipeline]_vars

---------------------------------------------------------------------------
(* Properties *)

\* a page has run the pipeline to its end
Computed(page) == view.page = page /\ view.error = "" /\ ~view.nodata

\* the rows the pages hand to analyze and detect_overspend
Normalized == clean(data).rows

RECURSIVE SumOver(_, _)
\* the sum of f over the finite set S
SumOver(S, f) ==
    IF S = {} THEN 0
    ELSE LET x == CHOOSE y \in S : TRUE IN f[x] + SumOver(S \ {x}, f)

\* the sum of the amounts of the rows of a sequence that have value k in column col
SumWhere(rows, col, k) ==
    SumOver({i \in 1 .. Len(rows) : rows[i][col] = k}, [i \in 1 .. Len(rows) |-> rows[i].amount])

\* the sum of the amounts of a sequence of totals
SumTotals(totals) ==
    SumOver(1 .. Len(totals), [i \in 1 .. Len(totals) |-> totals[i].amount])

\* totals has exactly one entry per value of column col, holding that value's sum
OneEntryPerKey(totals, rows, col) ==
    /\ {totals[j].key : j \in 1 .. Len(totals)} = {rows[i][col] : i \in 1 .. Len(rows)}
    /\ \A j, k \in 1 .. Len(totals) : totals[j].key = totals[k].key => j = k
    /\ \A j \in 1 .. Len(totals) : totals[j].amount = SumWhere(rows, col, totals[j].key)

\* C1: recommend has the two cut points 15000 and 8000: the advice is the high
\* one iff total > 15000, the moderate one iff 8000 < total <= 15000 and the
\* favorable one iff total <= 8000, on the Dashboard and at the four boundary
\* totals 8000, 8000.01, 15000, 15000.01
RecommendCutPoints ==
    /\ Computed("Dashboard") =>
          /\ view.rec = HighAdvice <=> view.total > 1500000
          /\ view.rec = ModerateAdvice <=> (800000 < view.total /\ view.total <= 1500000)
          /\ view.rec = FavorableAdvice <=> view.total <= 800000
    /\ recommend(800000) = FavorableAdvice
    /\ recommend(800001) = ModerateAdvice
    /\ recommend(1500000) = ModerateAdvice
    /\ recommend(1500001) = HighAdvice

\* C1 witness: the Dashboard of a store that totals 8000.01
RecommendJustOverModerateCut ==
    Computed("Dashboard") /\ view.total = 800001 /\ view.rec = ModerateAdvice

\* limits detect_overspend is tried with, in rupees
Limits == {0, 3000, 5000, 10000}

\* alerts hold exactly one alert, with the category's sum, for every category
\* of rows whose sum is over limit rupees, and none for any other
AlertsExact(alerts, rows, limit) ==
    /\ \A c \in {rows[i].category : i \in 1 .. Len(rows)} :
          Cardinality({j \in 1 .. Len(alerts) : alerts[j].category = c})
            = IF SumWhere(rows, "category", c) > limit * 100 THEN 1 ELSE 0
    /\ \A j \in 1 .. Len(alerts) :
          /\ \E i \in 1 .. Len(rows) : rows[i].category = alerts[j].category
          /\ alerts[j].total = SumWhere(rows, "category", alerts[j].category)

\* C2: detect_overspend gives exactly one alert, naming the category and its
\* sum, for every category whose sum is strictly over the limit and none for a
\* category at or below it; with the default limit a sum of 3000 gives no alert
OverspendAlertsExact ==
    Computed("Dashboard") =>
       /\ AlertsExact(view.alerts, Normalized, 3000)
       /\ \A limit \in Limits :
             AlertsExact(detect_overspend(Normalized, limit), Normalized, limit)

\* C2 witness: Food sums to 3000.01 and is the one category alerted, Gym sums
\* to 3000 and is not
OverspendJustOverLimit ==
    /\ Computed("Dashboard")
    /\ SumWhere(Normalized, "category", "Food") = 300001
    /\ SumWhere(Normalized, "category", "Gym") = 300000
    /\ view.alerts = <<[category |-> "Food", total |-> 300001]>>

Malformed(r) == r.date.t # "val" \/ r.amount.t # "val" \/ r.amount.v < 0

\* C6: normalize drops the records whose date does not parse or whose amount is
\* no number or negative, keeps every other record, and never fails as a whole
NormalizeDropsOnlyMalformed ==
    (view.page = "Dashboard" /\ ~view.nodata) =>
       /\ view.error = ""
       /\ view.entries = Cardinality({i \in 1 .. Len(data) : ~Malformed(data[i])})


\* the sequence s without the element at the 0-based position p
Without(s, p) == [j \in 1 .. (Len(s) - 1) |-> IF j <= p THEN s[j] ELSE s[j + 1]]

\* C4: a delete removes exactly the record at the position given, also from a
\* filtered listing: the store is then the store the delete found, without
\* that record, one shorter, the others unchanged and in order
DeleteRemovesExactlyOne ==
    last.op = "delete" =>
       /\ last.pos \in Labels(last.at)
       /\ Len(data) = Len(last.at) - 1
       /\ data = Without(last.at, last.pos)

\* C5: an update or a delete at a position that is not in the store fails and
\* changes nothing: with a pending edit position that is no position of the
\* store the page ends in an exception, offers no form, and the store has the
\* rows it had when the page listed it; an update that is applied is applied at
\* a position of the store and keeps its length and every other record; drop
\* raises KeyError and returns nothing new for every position not in the store
InvalidPositionFails ==
    /\ (view.page = "Manage Data" /\ edit_index # None /\ edit_index \notin Labels(data)) =>
          /\ view.error \in {"KeyError", "ValueError"}
          /\ ~view.form
          /\ Len(data) = view.entries
    /\ last.op = "update" =>
          /\ last.pos \in Labels(last.at)
          /\ Len(last.after) = Len(last.at)
          /\ \A p \in Labels(last.at) : p # last.pos => Row(last.after, p) = Row(last.at, p)
    /\ \A p \in (0 - 1) .. (Len(data) + 1) :
          p \notin Labels(data) => drop(data, p) = [error |-> "KeyError", df |-> data]

\* C5 witness: the only record was picked for edit and then deleted: position
\* 0 is pending on an empty store and the run ended with KeyError
EditPositionOnEmptyStore ==
    /\ view.page = "Manage Data"
    /\ data = <<>>
    /\ edit_index = 0
    /\ view.error = "KeyError"
    /\ last.op = "delete"

\* C7: every record of the store has a category that is not blank
CategoryNeverBlank ==
    \A i \in 1 .. Len(data) : data[i].category.t = "val" /\ data[i].category.v # ""

\* C8: a submission with amount 0 leaves the store as it was, and one with an
\* amount over 0 appends exactly one record, with the values submitted, behind
\* the records that were there
SubmitAppendsOneOrNothing ==
    last.op = "submit" =>
       LET given == last.rows[1]
       IN  IF given.amount.v = 0 THEN data = last.pre
           ELSE /\ Len(data) = Len(last.pre) + 1
                /\ SubSeq(data, 1, Len(last.pre)) = last.pre
                /\ data[Len(data)].date = given.date
                /\ data[Len(data)].amount = given.amount
                /\ data[Len(data)].description = given.description
                /\ data[Len(data)].category.t = "val"
                /\ data[Len(data)].category.v # ""

\* C8 witness: amount 0 was submitted to a store that holds a record
ZeroAmountSubmitted ==
    /\ last.op = "submit"
    /\ last.rows[1].amount.v = 0
    /\ data # <<>>
    /\ data = last.pre

\* C9: an import appends the rows of the upload, in order, behind the store,
\* and no later interaction imports the same upload again: its run starts
\* from the store as it was, and ends with what its own handler left
ImportedOnce ==
    /\ last.op = "upload" => data = last.pre \o last.rows
    /\ last.op \in {"remove file", "search", "rerun", "edit", "delete", "update", "cancel"} =>
          /\ last.at = last.pre
          /\ data = last.after

\* C10: the pending edit position is None or the position, in the store as it
\* is now, of the record that was picked for edit
EditIndexOnPickedRecord ==
    edit_index = None \/ (edit_index \in Labels(data) /\ edit_index = selected)

====
